---- MODULE Spec2Model ----
(***************************************************************************)
(* Verification model of the cascade-db storage core:                      *)
(*   - AlignedBuf and the stateless UringStorage   (src/src/storage.rs)    *)
(*   - the resident CoreStorage: page I/O and WAL                          *)
(*                                   (src/storage/src/core_storage.rs)     *)
(* Pages are scaled down: a page is the 4-byte checksum header followed by *)
(* PayloadLen payload bytes.  The checksum is the real CRC-32 (IEEE,       *)
(* reflected, init and final xor 0xFFFFFFFF) computed bit by bit, and the  *)
(* header holds its four big-endian bytes.                                 *)
(***************************************************************************)
EXTENDS Integers, Sequences, FiniteSets, TLC

\* ------------------------------------------------------------------ bounds
PayloadLen == 1      \* payload bytes of a (scaled) page
SizeStep == 1        \* how far a buffer's capacity may differ from PAGE_SIZE
MaxCalls == 2        \* read_page / write_page calls of one UringStorage run
MaxAppends == 3      \* append_wal calls of one CoreStorage run
MaxWalPayload == 2   \* longest WAL payload
MaxCoreCalls == 3    \* PageStore calls of one CoreStorage run
MaxSegment == 2      \* highest segment number of the page ids that are located

\* ------------------------------------------------------- program constants
HEADER_LEN == 4
PAGE_SIZE == HEADER_LEN + PayloadLen
PAGES_PER_SEGMENT == 131072

Min(a, b) == IF a < b THEN a ELSE b
Max(a, b) == IF a < b THEN b ELSE a

\* ------------------------------------------------------------------ CRC-32
\* A u32 is a function from bit position (0 = least significant) to 0/1.
Bit == 0..31
PolyBits == {31, 30, 29, 27, 26, 24, 23, 21, 20, 19, 15, 9, 8, 5}   \* 0xEDB88320
Poly == [i \in Bit |-> IF i \in PolyBits THEN 1 ELSE 0]
AllOnes == [i \in Bit |-> 1]

Xor32(a, b) == [i \in Bit |-> (a[i] + b[i]) % 2]
Shr1(a) == [i \in Bit |-> IF i = 31 THEN 0 ELSE a[i + 1]]
ByteBits(v) == [i \in Bit |-> IF i < 8 THEN (v \div (2 ^ i)) % 2 ELSE 0]

RECURSIVE CrcShift(_, _)
CrcShift(c, k) ==
    IF k = 0 THEN c
    ELSE CrcShift(IF c[0] = 1 THEN Xor32(Shr1(c), Poly) ELSE Shr1(c), k - 1)

RECURSIVE CrcUpdate(_, _)
CrcUpdate(c, bytes) ==
    IF bytes = << >> THEN c
    ELSE CrcUpdate(CrcShift(Xor32(c, ByteBits(Head(bytes))), 8), Tail(bytes))

\* Hasher::new(); update(bytes); finalize()
Crc32(bytes) == Xor32(CrcUpdate(AllOnes, bytes), AllOnes)

\* u32::to_be_bytes: the most significant byte first.
to_be_bytes(c) ==
    [k \in 1..4 |->
        LET lo == 8 * (4 - k)
        IN  c[lo] + 2 * c[lo + 1] + 4 * c[lo + 2] + 8 * c[lo + 3]
            + 16 * c[lo + 4] + 32 * c[lo + 5] + 64 * c[lo + 6] + 128 * c[lo + 7]]

\* u32::from_be_bytes
from_be_bytes(b) ==
    [i \in Bit |-> (b[4 - (i \div 8)] \div (2 ^ (i % 8))) % 2]


\* -------------------------------------------------------------- AlignedBuf
\* id: the identity of the allocation; cap: layout.size(); init: the number
\* of initialized bytes; bytes: the memory; written: for each byte, whether
\* anything ever stored a value in it (bookkeeping, not program state).
NoBuf == [id |-> 0]

BufSizes == {PAGE_SIZE - SizeStep, PAGE_SIZE, PAGE_SIZE + SizeStep}
MaxCap == PAGE_SIZE + SizeStep
\* What alloc() may leave in the fresh memory.
Garbage == {0, 255}
\* Values a caller stores through the mutable view.
ByteVals == {1}
\* Lengths callers pass to set_init_len / ensure_init_up_to / set_init.
LenArgs == {0, HEADER_LEN, PAGE_SIZE, MaxCap + 1}

new(size, id, g) ==
    [id |-> id, cap |-> size, init |-> 0,
     bytes |-> [i \in 1..size |-> g],
     written |-> [i \in 1..size |-> FALSE]]

len(b) == b.cap

as_init_slice(b) == SubSeq(b.bytes, 1, b.init)

\* A store of v into offsets [lo, hi) of as_mut_total_slice().
as_mut_total_slice(b, lo, hi, v) ==
    [b EXCEPT !.bytes = [i \in 1..b.cap |-> IF lo < i /\ i <= hi THEN v[i - lo] ELSE @[i]],
              !.written = [i \in 1..b.cap |-> IF lo < i /\ i <= hi THEN TRUE ELSE @[i]]]

\* The initialized length only ever raised.
set_init_len_monotonic(b, n) ==
    IF Min(n, b.cap) > b.init THEN [b EXCEPT !.init = Min(n, b.cap)] ELSE b

set_init_len(b, n) == [b EXCEPT !.init = Min(n, b.cap)]

\* The initialized length raised without the zero-fill.
ensure_init_up_to_nofill(b, n) ==
    LET target == Min(n, b.cap)
    IN  IF b.init < target THEN [b EXCEPT !.init = target] ELSE b

ensure_init_up_to(b, n) ==
    LET target == Min(n, b.cap)
        init == b.init
    IN  IF init < target
        THEN [as_mut_total_slice(b, init, target, [i \in 1..(target - init) |-> 0])
                EXCEPT !.init = target]
        ELSE b

\* IoBuf
bytes_init(b) == b.init
bytes_total(b) == b.cap

\* The position taken as it is, not clamped to the capacity.
set_init_unclamped(b, pos) ==
    IF pos > b.init THEN [b EXCEPT !.init = pos] ELSE b

\* IoBufMut::set_init
set_init(b, pos) ==
    IF pos > b.init THEN [b EXCEPT !.init = Min(pos, b.cap)] ELSE b


\* ------------------------------------------------------------------- state
VARIABLES
    buf,        \* the caller's AlignedBuf (NoBuf: none allocated)
    owner,      \* who holds buf: "caller", "op" (an I/O in flight), "none"
    pc,         \* "idle", "writing", "reading", "panicked"
    op,         \* the call in flight: its page id and the submitted buffer
    ret,        \* what the call that just ended gave back (NoRet otherwise)
    disk,       \* segment file -> its bytes
    nextId,     \* identity of the next allocation
    calls,      \* read_page / write_page calls made so far
    lastWrite,  \* the last write_page, while nothing else has written since
    wrOk,       \* pages whose most recent write_page returned Ok
    tampered    \* pages corrupted on disk since their last write_page

uvars == <<buf, owner, pc, op, ret, disk, nextId, calls,
           lastWrite, wrOk, tampered>>

\* CoreStorage, write-ahead log
VARIABLES
    wal_offsets,  \* db_id -> tail byte offset; a db_id never appended to is absent
    appends,      \* the append_wal calls so far, in call order, with their results
    wal_durable,  \* db_id -> the bytes its log file durably holds
    wpc,          \* task -> "idle", "panicked" (in its WalStore calls)
    wflush        \* the flush_wal call that just ended (NoFlush otherwise)

wvars == <<wal_offsets, appends, wal_durable, wpc, wflush>>

\* CoreStorage, data pages
VARIABLES
    data_files,  \* (db_id, space_id) -> the cached file handle
    borrowed,    \* the task holding data_files.borrow_mut() (0: not borrowed)
    cpc,         \* task -> "idle", "opening", "reading", "writing", "panicked"
    cop,         \* task -> the call it is in
    cbuf,        \* task -> the AlignedBuf its call in flight holds
    cret,        \* what the call that just ended gave back (NoCoreRet otherwise)
    cdisk,       \* (db_id, space_id) -> the bytes of the data file
    nopen,       \* data files opened so far
    ccalls,      \* PageStore calls made so far
    cwrOk,       \* pages whose most recent write_page returned Ok
    extents      \* the extents allocate_extent calls have returned

cvars == <<data_files, borrowed, cpc, cop, cbuf, cret, cdisk, nopen, ccalls, cwrOk,
           extents>>

\* Page addressing
VARIABLES
    located,       \* the page id located last and where each backend puts it
    prev_located   \* the one before

avars == <<located, prev_located>>

vars == <<uvars, wvars, cvars, avars>>

\* ------------------------------------------------------------ UringStorage
SpaceIds == {1}
PageNos == {0, 1}
PageIds == [space_id : SpaceIds, page_no : PageNos]

\* The file name "space_{space_id}_seg_{segment_no:04}.db" as its two numbers.
get_location(page_id) ==
    LET segment_no == page_id.page_no \div PAGES_PER_SEGMENT
        local_page_no == page_id.page_no % PAGES_PER_SEGMENT
    IN  [path |-> <<page_id.space_id, segment_no>>,
         offset |-> local_page_no * PAGE_SIZE]

Files == {get_location(p).path : p \in PageIds}
\* The modelled part of a segment file: its first two pages and the bytes an
\* oversized transfer at the second page reaches.
FileLen == 2 * PAGE_SIZE + SizeStep

NoPage == [space_id |-> 0, page_no |-> 0]
NoOp == [page |-> NoPage, submitted |-> 0]
NoRet == [op |-> "none", page |-> NoPage, res |-> "none", n |-> -1, submitted |-> 0]
NoWrite == [page |-> NoPage, payload |-> << >>]

\* Byte counts the kernel may complete a transfer of `want` bytes with.
TransferLens(want) == {k \in 0..want : k \in {0, HEADER_LEN, PAGE_SIZE, want}}

\* The file after the kernel stored the first n bytes of `bytes` at `offset`.
KernelWrite(file, offset, bytes, n) ==
    [i \in 1..Len(file) |->
        IF offset < i /\ i <= offset + n THEN bytes[i - offset] ELSE file[i]]

\* The memory after the kernel stored n bytes read at `offset` into it.
KernelRead(b, file, offset, n) ==
    as_mut_total_slice(b, 0, n, [i \in 1..n |-> file[offset + i]])

DiskPage(d, page_id) ==
    LET loc == get_location(page_id)
    IN  SubSeq(d[loc.path], loc.offset + 1, loc.offset + PAGE_SIZE)

Header(page) == SubSeq(page, 1, HEADER_LEN)
Payload(page) == SubSeq(page, HEADER_LEN + 1, PAGE_SIZE)

\* The checksum stored with its least significant byte first.
StampLittleEndian(b) ==
    LET checksum == Crc32(SubSeq(as_init_slice(b), HEADER_LEN + 1, PAGE_SIZE))
        be == to_be_bytes(checksum)
    IN  as_mut_total_slice(b, 0, HEADER_LEN, [k \in 1..4 |-> be[5 - k]])

\* storage.rs 163-167: CRC over bytes [4..PAGE_SIZE), big-endian in [0..4)
Stamp(b) ==
    LET checksum == Crc32(SubSeq(as_init_slice(b), HEADER_LEN + 1, PAGE_SIZE))
    IN  as_mut_total_slice(b, 0, HEADER_LEN, to_be_bytes(checksum))

\* storage.rs 222-230: stored != computed
ChecksumMismatch(s) ==
    LET stored == from_be_bytes(SubSeq(s, 1, HEADER_LEN))
        computed == Crc32(SubSeq(s, HEADER_LEN + 1, PAGE_SIZE))
    IN  stored # computed

\* How a write completion is turned into the result (storage.rs 179-189).
WriteResult(n) == IF n = PAGE_SIZE THEN "Ok" ELSE "WriteZero"

\* How a read completion of n bytes is turned into the result (208-241).
ReadResult(b, n) ==
    IF n # PAGE_SIZE THEN "UnexpectedEof"
    ELSE IF ChecksumMismatch(as_init_slice(b)) THEN "InvalidData"
    ELSE "Ok"

UInit ==
    /\ buf = NoBuf
    /\ owner = "none"
    /\ pc = "idle"
    /\ op = NoOp
    /\ ret = NoRet
    /\ disk = [f \in Files |-> [i \in 1..FileLen |-> 0]]
    /\ nextId = 1
    /\ calls = 0
    /\ lastWrite = NoWrite
    /\ wrOk = {}
    /\ tampered = {}

\* The logical tasks of one core.
Tasks == {1, 2}

DbIds == {7, 8}
NoFlush == [task |-> 0, db |-> 0, res |-> "none"]

WInit ==
    /\ wal_offsets = [d \in {} |-> 0]
    /\ appends = << >>
    /\ wal_durable = [d \in DbIds |-> << >>]
    /\ wpc = [t \in Tasks |-> "idle"]
    /\ wflush = NoFlush

NoCorePage == [db_id |-> 0, space_id |-> 0, page_no |-> 0]
NoCoreOp == [kind |-> "none", page |-> NoCorePage]
NoCoreRet == [task |-> 0, op |-> "none", page |-> NoCorePage, res |-> "none", n |-> -1,
              buf |-> NoBuf]

CInit ==
    /\ data_files = [k \in {} |-> 0]
    /\ borrowed = 0
    /\ cpc = [t \in Tasks |-> "idle"]
    /\ cop = [t \in Tasks |-> NoCoreOp]
    /\ cbuf = [t \in Tasks |-> NoBuf]
    /\ cret = NoCoreRet
    /\ cdisk = [k \in {} |-> << >>]
    /\ nopen = 0
    /\ ccalls = 0
    /\ cwrOk = {}
    /\ extents = {}

NoLocated == [page |-> NoCorePage,
              uring |-> [path |-> << >>, offset |-> 0],
              core |-> [path |-> << >>, offset |-> 0]]

AInit ==
    /\ located = NoLocated
    /\ prev_located = NoLocated

Init == UInit /\ WInit /\ CInit /\ AInit

Idle == pc = "idle" /\ owner = "caller"

\* AlignedBuf::new(size)
New(size, g) ==
    /\ pc = "idle" /\ owner = "none"
    /\ buf' = new(size, nextId, g)
    /\ owner' = "caller"
    /\ nextId' = 3 - nextId
    /\ ret' = NoRet
    /\ UNCHANGED <<pc, op, disk, calls, lastWrite, wrOk, tampered>>

\* impl Drop for AlignedBuf
Drop ==
    /\ Idle
    /\ buf' = NoBuf
    /\ owner' = "none"
    /\ ret' = NoRet
    /\ UNCHANGED <<pc, op, disk, nextId, calls, lastWrite, wrOk, tampered>>

BufStep(b) ==
    /\ buf' = b
    /\ ret' = NoRet
    /\ UNCHANGED <<owner, pc, op, disk, nextId, calls, lastWrite, wrOk, tampered>>

\* The caller stores v in every byte of a region through as_mut_total_slice().
Regions(b) == {r \in {<<0, HEADER_LEN>>, <<HEADER_LEN, PAGE_SIZE>>, <<PAGE_SIZE, b.cap>>} :
                 r[1] < r[2] /\ r[2] <= b.cap}

CallerWrite(r, v) ==
    /\ Idle /\ r \in Regions(buf)
    /\ BufStep(as_mut_total_slice(buf, r[1], r[2], [i \in 1..(r[2] - r[1]) |-> v]))

SetInitLen(n) == Idle /\ BufStep(set_init_len(buf, n))

EnsureInitUpTo(n) == Idle /\ BufStep(ensure_init_up_to(buf, n))

SetInit(pos) == Idle /\ BufStep(set_init(buf, pos))


\* write_page up to the submission of write_at (storage.rs 155-177).  The
\* slice [4..PAGE_SIZE] of the initialized prefix panics when the prefix is
\* shorter than a page; the unwinding drops the buffer.
WritePageCall(page_id) ==
    /\ Idle /\ calls < MaxCalls
    /\ calls' = calls + 1
    /\ lastWrite' = NoWrite
    /\ LET b1 == ensure_init_up_to(buf, PAGE_SIZE)
       IN  IF Len(as_init_slice(b1)) < PAGE_SIZE
           THEN /\ pc' = "panicked"
                /\ buf' = NoBuf
                /\ owner' = "none"
                /\ op' = NoOp
                /\ ret' = [op |-> "write", page |-> page_id, res |-> "Panic",
                           n |-> -1, submitted |-> buf.id]
                /\ UNCHANGED <<wrOk, tampered>>
           ELSE \E opened \in BOOLEAN :
                  /\ buf' = Stamp(b1)
                  /\ IF opened
                     THEN /\ pc' = "writing"
                          /\ owner' = "op"
                          /\ op' = [page |-> page_id, submitted |-> buf.id]
                          /\ ret' = NoRet
                          /\ UNCHANGED <<wrOk, tampered>>
                     ELSE /\ pc' = "idle"
                          /\ owner' = "caller"
                          /\ op' = NoOp
                          /\ ret' = [op |-> "write", page |-> page_id, res |-> "Os",
                                     n |-> -1, submitted |-> buf.id]
                          /\ wrOk' = wrOk \ {page_id}
                          /\ UNCHANGED tampered
    /\ UNCHANGED <<disk, nextId>>

\* The completion of write_at and the match on it (storage.rs 177-189).
\* The kernel is handed bytes_init() bytes of the buffer.
WritePageComplete ==
    /\ pc = "writing"
    /\ pc' = "idle"
    /\ owner' = "caller"
    /\ op' = NoOp
    /\ LET loc == get_location(op.page)
       IN  \/ /\ ret' = [op |-> "write", page |-> op.page, res |-> "Os",
                         n |-> -1, submitted |-> op.submitted]
              /\ wrOk' = wrOk \ {op.page}
              /\ UNCHANGED <<disk, lastWrite, tampered>>
           \/ \E n \in TransferLens(bytes_init(buf)) :
                /\ disk' = [disk EXCEPT ![loc.path] =
                              KernelWrite(@, loc.offset, buf.bytes, n)]
                /\ ret' = [op |-> "write", page |-> op.page, res |-> WriteResult(n),
                           n |-> n, submitted |-> op.submitted]
                /\ wrOk' = IF WriteResult(n) = "Ok" THEN wrOk \cup {op.page}
                           ELSE wrOk \ {op.page}
                /\ tampered' = IF n > 0 THEN tampered \ {op.page} ELSE tampered
                /\ lastWrite' = IF WriteResult(n) = "Ok"
                                THEN [page |-> op.page,
                                      payload |-> Payload(buf.bytes)]
                                ELSE NoWrite
    /\ UNCHANGED <<buf, nextId, calls>>

\* read_page up to the submission of read_at (storage.rs 192-206).
ReadPageCall(page_id) ==
    /\ Idle /\ calls < MaxCalls
    /\ calls' = calls + 1
    /\ \E opened \in BOOLEAN :
         IF opened
         THEN /\ pc' = "reading"
              /\ owner' = "op"
              /\ op' = [page |-> page_id, submitted |-> op.submitted]
              /\ ret' = NoRet
         ELSE /\ ret' = [op |-> "read", page |-> page_id, res |-> "Os",
                         n |-> -1, submitted |-> op.submitted]
              /\ UNCHANGED <<pc, owner, op>>
    /\ UNCHANGED <<buf, disk, nextId, lastWrite, wrOk, tampered>>

\* The completion of read_at and the match on it (storage.rs 206-243).  The
\* kernel is handed bytes_total() bytes of memory; the runtime marks the
\* bytes read with IoBufMut::set_init before read_page sees the buffer.
ReadPageComplete ==
    /\ pc = "reading"
    /\ pc' = "idle"
    /\ owner' = "caller"
    /\ op' = NoOp
    /\ LET loc == get_location(op.page)
       IN  \/ /\ ret' = [op |-> "read", page |-> op.page, res |-> "Os",
                         n |-> -1, submitted |-> op.submitted]
              /\ UNCHANGED buf
           \/ \E n \in TransferLens(bytes_total(buf)) :
                LET b1 == set_init(KernelRead(buf, disk[loc.path], loc.offset, n), n)
                    b2 == set_init_len(b1, n)
                IN  /\ buf' = b2
                    /\ ret' = [op |-> "read", page |-> op.page, res |-> ReadResult(b2, n),
                               n |-> n, submitted |-> op.submitted]
    /\ UNCHANGED <<disk, nextId, calls, lastWrite, wrOk, tampered>>

\* Something outside the program changes one payload byte of a page on disk
\* that holds the image of a successful write_page.
Corrupt(page_id, k) ==
    /\ pc = "idle" /\ page_id \in wrOk /\ page_id \notin tampered
    /\ LET loc == get_location(page_id)
           i == loc.offset + HEADER_LEN + k
       IN  disk' = [disk EXCEPT ![loc.path][i] = IF @ = 255 THEN 0 ELSE 255]
    /\ tampered' = tampered \cup {page_id}
    /\ lastWrite' = NoWrite
    /\ ret' = NoRet
    /\ UNCHANGED <<buf, owner, pc, op, nextId, calls, wrOk>>

UNext ==
    \/ \E size \in BufSizes, g \in Garbage : New(size, g)
    \/ Drop
    \/ \E v \in ByteVals : CallerWrite(<<HEADER_LEN, PAGE_SIZE>>, v)
    \/ \E n \in {PAGE_SIZE, MaxCap + 1} : SetInitLen(n)
    \/ \E p \in PageIds : WritePageCall(p)
    \/ WritePageComplete
    \/ \E p \in PageIds : ReadPageCall(p)
    \/ ReadPageComplete
    \/ \E p \in PageIds, k \in 1..PayloadLen : Corrupt(p, k)

\* UringStorage with its callers' buffers.
Next == UNext /\ UNCHANGED <<wvars, cvars, avars>>

Spec == Init /\ [][Next]_vars

\* AlignedBuf alone, under every operation of its interface.
BNext ==
    \/ \E size \in BufSizes, g \in Garbage : New(size, g)
    \/ Drop
    \/ \E r \in {<<0, HEADER_LEN>>, <<HEADER_LEN, PAGE_SIZE>>, <<PAGE_SIZE, MaxCap>>},
          v \in ByteVals : CallerWrite(r, v)
    \/ \E n \in LenArgs : SetInitLen(n)
    \/ \E n \in LenArgs : EnsureInitUpTo(n)
    \/ \E pos \in LenArgs : SetInit(pos)

NextBuf == BNext /\ UNCHANGED <<wvars, cvars, avars>>

SpecBuf == Init /\ [][NextBuf]_vars

\* ------------------------------------------------------- CoreStorage: WAL
\* append_wal reads only the length of its payload.
WalPayloads == {[i \in 1..n |-> 1] : n \in 0..MaxWalPayload}

\* core_storage.rs 148-158: offsets.entry(db_id).or_insert(0), the LSN is
\* the tail, the tail advances by payload.len().  (The u64 tail cannot wrap
\* within MaxAppends appends of at most MaxWalPayload bytes.)
or_insert(offsets, db_id, v) ==
    IF db_id \in DOMAIN offsets THEN offsets
    ELSE [d \in DOMAIN offsets \cup {db_id} |-> IF d = db_id THEN v ELSE offsets[d]]

append_wal_assign(offsets, db_id, payload) ==
    LET o1 == or_insert(offsets, db_id, 0)
    IN  [lsn |-> o1[db_id],
         offsets |-> [o1 EXCEPT ![db_id] = Len(payload)]]

append_wal_framed(offsets, db_id, payload) ==
    LET o1 == or_insert(offsets, db_id, 0)
    IN  [lsn |-> o1[db_id],
         offsets |-> [o1 EXCEPT ![db_id] = @ + Len(payload) + 1]]

append_wal_copy(offsets, db_id, payload) ==
    LET o1 == or_insert(offsets, db_id, 0)
    IN  [lsn |-> o1[db_id], offsets |-> o1]

\* The tail of every database in the map advanced, not only db_id's.
append_wal_all(offsets, db_id, payload) ==
    LET o1 == or_insert(offsets, db_id, 0)
    IN  [lsn |-> o1[db_id],
         offsets |-> [d \in DOMAIN o1 |-> o1[d] + Len(payload)]]

append_wal(offsets, db_id, payload) ==
    LET o1 == or_insert(offsets, db_id, 0)
        start_offset == o1[db_id]
    IN  [lsn |-> start_offset,
         offsets |-> [o1 EXCEPT ![db_id] = @ + Len(payload)]]

\* Task t calls append_wal(db_id, payload).  The body has no suspension
\* point, so the call runs from the borrow of wal_offsets to its return in
\* one step of the core's executor.
AppendWal(t, db_id, payload) ==
    /\ wpc[t] = "idle"
    /\ Len(appends) < MaxAppends
    /\ LET r == append_wal(wal_offsets, db_id, payload)
       IN  /\ wal_offsets' = r.offsets
           /\ appends' = Append(appends, [task |-> t, db |-> db_id,
                                          lsn |-> r.lsn, len |-> Len(payload)])
    /\ wflush' = NoFlush
    /\ UNCHANGED <<wal_durable, wpc>>

\* Task t calls flush_wal(db_id) (core_storage.rs 161-167).  Its first
\* statement awaits get_wal_file, whose body is todo!() (51-55): the call
\* panics at its first poll, before any file is opened or synced.
FlushWal(t, db_id) ==
    /\ wpc[t] = "idle"
    /\ wpc' = [wpc EXCEPT ![t] = "panicked"]
    /\ wflush' = [task |-> t, db |-> db_id, res |-> "Panic"]
    /\ UNCHANGED <<wal_offsets, appends, wal_durable>>

WNext ==
    \/ \E t \in Tasks, d \in DbIds, payload \in WalPayloads : AppendWal(t, d, payload)
    \/ \E t \in Tasks, d \in DbIds : FlushWal(t, d)

NextWal == WNext /\ UNCHANGED <<uvars, cvars, avars>>

SpecWal == Init /\ [][NextWal]_vars


\* ------------------------------------------------ CoreStorage: data pages
CoreSpaceIds == {1, 2}
CorePageNos == {0, 1}
CorePageIds == {p \in [db_id : {7}, space_id : CoreSpaceIds, page_no : CorePageNos] :
                   p.space_id = 1 \/ p.page_no = 0}
FileKey(page_id) == <<page_id.db_id, page_id.space_id>>

\* core_storage.rs 73, 98
CoreOffset(page_id) == page_id.page_no * PAGE_SIZE

\* A page image as the buffer pool hands it to write_page: the payload
\* filled with v, the whole page marked initialized, and the checksum either
\* stamped by the buffer pool (traits.rs 53) or left as allocated.
PreparedPage(g, v, stamped) ==
    LET b0 == new(PAGE_SIZE, 1, g)
        b1 == as_mut_total_slice(b0, HEADER_LEN, PAGE_SIZE, [i \in 1..PayloadLen |-> v])
        b2 == set_init_len(as_mut_total_slice(b1, 0, HEADER_LEN, [i \in 1..HEADER_LEN |-> g]),
                           PAGE_SIZE)
    IN  IF stamped THEN Stamp(b2) ELSE b2

WriteBufs == {PreparedPage(g, v, st) : g \in Garbage, v \in ByteVals, st \in BOOLEAN}
ReadBufs == {new(PAGE_SIZE, 1, g) : g \in Garbage}

\* The data file after the kernel stored the first n bytes of `bytes` at
\* `offset`; a store beyond the end of the file extends it, zero-filled.
CoreKernelWrite(file, offset, bytes, n) ==
    LET newLen == IF n > 0 THEN Max(Len(file), offset + n) ELSE Len(file)
    IN  [i \in 1..newLen |->
            IF offset < i /\ i <= offset + n THEN bytes[i - offset]
            ELSE IF i <= Len(file) THEN file[i] ELSE 0]

\* Bytes of the file from `offset` on that a read of `want` bytes can return.
Available(file, offset, want) == Max(0, Min(want, Len(file) - offset))

\* core_storage.rs 78-84: any completed read is Ok
CoreReadResult(b, n) == "Ok"

\* core_storage.rs 103-106: any completed write is Ok
CoreWriteResult(n) == "Ok"

\* Where a call is once get_data_file gave it the handle: read_page and
\* write_page have submitted their I/O and are suspended until it completes;
\* allocate_extent has reached todo!() (core_storage.rs 134) and panicked.
Submitted(kind) ==
    IF kind = "read" THEN "reading"
    ELSE IF kind = "write" THEN "writing"
    ELSE "panicked"

CoreRet(t, kind, page_id, res, n, b) ==
    [task |-> t, op |-> kind, page |-> page_id, res |-> res, n |-> n, buf |-> b]

\* read_page / write_page up to the first suspension point.  get_data_file
\* (core_storage.rs 27-48) borrows the cache mutably (a BorrowMutError
\* panic when a task suspended in get_data_file still holds the borrow),
\* returns the cached handle, or suspends in open() with the borrow held.
\* What a call that has the handle gives back at once: nothing for the
\* calls now suspended in their I/O, the todo!() panic of allocate_extent.
SubmittedRet(t, kind, page_id) ==
    IF Submitted(kind) = "panicked"
    THEN CoreRet(t, kind, page_id, "Todo", -1, NoBuf)
    ELSE NoCoreRet

CoreCall(t, kind, page_id, b) ==
    /\ cpc[t] = "idle" /\ ccalls < MaxCoreCalls
    /\ ccalls' = ccalls + 1
    /\ IF borrowed # 0
       THEN /\ cpc' = [cpc EXCEPT ![t] = "panicked"]
            /\ cret' = CoreRet(t, kind, page_id, "Panic", -1, NoBuf)
            /\ UNCHANGED <<borrowed, cop, cbuf>>
       ELSE IF FileKey(page_id) \in DOMAIN data_files
       THEN /\ cpc' = [cpc EXCEPT ![t] = Submitted(kind)]
            /\ cret' = SubmittedRet(t, kind, page_id)
            /\ IF Submitted(kind) = "panicked"
               THEN UNCHANGED <<cop, cbuf>>
               ELSE /\ cop' = [cop EXCEPT ![t] = [kind |-> kind, page |-> page_id]]
                    /\ cbuf' = [cbuf EXCEPT ![t] = [b EXCEPT !.id = t]]
            /\ UNCHANGED borrowed
       ELSE /\ cop' = [cop EXCEPT ![t] = [kind |-> kind, page |-> page_id]]
            /\ cbuf' = [cbuf EXCEPT ![t] = IF b = NoBuf THEN NoBuf ELSE [b EXCEPT !.id = t]]
            /\ cret' = NoCoreRet
            /\ cpc' = [cpc EXCEPT ![t] = "opening"]
            /\ borrowed' = t
    /\ UNCHANGED <<data_files, cdisk, nopen, cwrOk, extents>>

ReadPage(t, page_id) == \E b \in ReadBufs : CoreCall(t, "read", page_id, b)

WritePage(t, page_id) == \E b \in WriteBufs : CoreCall(t, "write", page_id, b)

\* allocate_extent (core_storage.rs 128-135): get_data_file, the size of the
\* extent in bytes (not used), todo!().
ExtentSizes == {5, 10}
AllocateExtent(t, db_id, space_id, num_pages) ==
    LET bytes_to_allocate == num_pages * PAGE_SIZE
    IN  CoreCall(t, "allocate",
                 [db_id |-> db_id, space_id |-> space_id, page_no |-> 0], NoBuf)

\* cache.insert((db_id, space_id), Rc::clone(&rc_file)) (core_storage.rs 46)
insert(cache, key, handle) ==
    [k \in DOMAIN cache \cup {key} |-> IF k = key THEN handle ELSE cache[k]]

\* The completion of open() in get_data_file (core_storage.rs 36-47) and the
\* rest of the call up to the submission of its I/O.
OpenComplete(t) ==
    /\ cpc[t] = "opening"
    /\ borrowed' = 0
    /\ LET key == FileKey(cop[t].page)
       IN  \/ /\ nopen' = nopen + 1
              /\ data_files' = insert(data_files, key, nopen + 1)
              /\ cdisk' = IF key \in DOMAIN cdisk THEN cdisk
                          ELSE [k \in DOMAIN cdisk \cup {key} |->
                                  IF k = key THEN << >> ELSE cdisk[k]]
              /\ cpc' = [cpc EXCEPT ![t] = Submitted(cop[t].kind)]
              /\ cret' = SubmittedRet(t, cop[t].kind, cop[t].page)
              /\ cop' = IF Submitted(cop[t].kind) = "panicked"
                        THEN [cop EXCEPT ![t] = NoCoreOp] ELSE cop
              /\ UNCHANGED <<cbuf, cwrOk>>
           \/ /\ cpc' = [cpc EXCEPT ![t] = "idle"]
              /\ cret' = CoreRet(t, cop[t].kind, cop[t].page, "Io", -1, cbuf[t])
              /\ cop' = [cop EXCEPT ![t] = NoCoreOp]
              /\ cbuf' = [cbuf EXCEPT ![t] = NoBuf]
              /\ cwrOk' = IF cop[t].kind = "write" THEN cwrOk \ {cop[t].page} ELSE cwrOk
              /\ UNCHANGED <<data_files, cdisk, nopen>>
    /\ UNCHANGED <<ccalls, extents>>

\* The completion of write_at and the match on it (core_storage.rs 101-106).
CoreWriteComplete(t) ==
    /\ cpc[t] = "writing"
    /\ cpc' = [cpc EXCEPT ![t] = "idle"]
    /\ cop' = [cop EXCEPT ![t] = NoCoreOp]
    /\ cbuf' = [cbuf EXCEPT ![t] = NoBuf]
    /\ LET page_id == cop[t].page
           key == FileKey(page_id)
       IN  \/ /\ cret' = CoreRet(t, "write", page_id, "Io", -1, cbuf[t])
              /\ cwrOk' = cwrOk \ {page_id}
              /\ UNCHANGED cdisk
           \/ \E n \in TransferLens(bytes_init(cbuf[t])) :
                /\ cdisk' = [cdisk EXCEPT ![key] =
                               CoreKernelWrite(@, CoreOffset(page_id), cbuf[t].bytes, n)]
                /\ cret' = CoreRet(t, "write", page_id, CoreWriteResult(n), n, cbuf[t])
                /\ cwrOk' = IF CoreWriteResult(n) = "Ok" THEN cwrOk \cup {page_id}
                            ELSE cwrOk \ {page_id}
    /\ UNCHANGED <<data_files, borrowed, nopen, ccalls, extents>>

\* The completion of read_at and the match on it (core_storage.rs 76-84).
CoreReadComplete(t) ==
    /\ cpc[t] = "reading"
    /\ cpc' = [cpc EXCEPT ![t] = "idle"]
    /\ cop' = [cop EXCEPT ![t] = NoCoreOp]
    /\ cbuf' = [cbuf EXCEPT ![t] = NoBuf]
    /\ LET page_id == cop[t].page
           file == cdisk[FileKey(page_id)]
           avail == Available(file, CoreOffset(page_id), bytes_total(cbuf[t]))
       IN  \/ cret' = CoreRet(t, "read", page_id, "Io", -1, cbuf[t])
           \/ \E n \in TransferLens(avail) :
                LET b1 == set_init(KernelRead(cbuf[t], file, CoreOffset(page_id), n), n)
                IN  cret' = CoreRet(t, "read", page_id, CoreReadResult(b1, n), n, b1)
    /\ UNCHANGED <<data_files, borrowed, cdisk, nopen, ccalls, cwrOk, extents>>

CNext ==
    \/ \E t \in Tasks, p \in CorePageIds : ReadPage(t, p)
    \/ \E t \in Tasks, p \in CorePageIds : WritePage(t, p)
    \/ \E t \in Tasks, s \in CoreSpaceIds, n \in ExtentSizes : AllocateExtent(t, 7, s, n)
    \/ \E t \in Tasks : OpenComplete(t)
    \/ \E t \in Tasks : CoreWriteComplete(t)
    \/ \E t \in Tasks : CoreReadComplete(t)

NextCore == CNext /\ UNCHANGED <<uvars, wvars, avars>>

SpecCore == Init /\ [][NextCore]_vars

\* --------------------------------------------------------- page addressing
\* Page ids in the segments 0..MaxSegment: the first two pages and the last
\* page of each segment.
LocPageNos == {k * PAGES_PER_SEGMENT + r :
                 k \in 0..MaxSegment, r \in {0, 1, PAGES_PER_SEGMENT - 1}}
LocPageIds == [db_id : {7}, space_id : {1, 2}, page_no : LocPageNos]

\* The file and the byte offset CoreStorage's read_page / write_page hand to
\* read_at / write_at: the file "db_{db_id}/space_{space_id}.dat" as its two
\* numbers (core_storage.rs 34) and page_no * PAGE_SIZE (73, 98).
core_location(page_id) ==
    [path |-> FileKey(page_id), offset |-> CoreOffset(page_id)]

\* Both backends resolve the page id of a page I/O.
Locate(page_id) ==
    /\ prev_located' = located
    /\ located' = [page |-> page_id,
                   uring |-> get_location([space_id |-> page_id.space_id,
                                           page_no |-> page_id.page_no]),
                   core |-> core_location(page_id)]

ANext == \E p \in LocPageIds : Locate(p)

NextLoc == ANext /\ UNCHANGED <<uvars, wvars, cvars>>

SpecLoc == Init /\ [][NextLoc]_vars

\* ------------------------------------------------- claims on UringStorage
\* A read_page that has just returned, of the page the last write_page
\* wrote successfully, with no other write in between.
ReadAfterWrite ==
    /\ ret.op = "read"
    /\ lastWrite # NoWrite
    /\ lastWrite.page = ret.page

\* C1 as stated: after write_page(p, buf) returned Ok and no other write
\* happened, read_page(p, buf2) returns Ok and the payload bytes of buf2 are
\* the payload bytes that were written.
C1_RoundTrip ==
    ReadAfterWrite =>
        /\ ret.res = "Ok"
        /\ Payload(buf.bytes) = lastWrite.payload

\* C1 amended: after write_page(p, buf) returned Ok and no other write
\* happened, a read_page(p, buf2) whose read completes with exactly PAGE_SIZE
\* bytes returns Ok with the payload bytes that were written, and a
\* read_page whose segment open or read fails, or whose read completes with
\* another byte count, returns an error.
C1_RoundTripOnFullRead ==
    ReadAfterWrite =>
        IF ret.n = PAGE_SIZE
        THEN ret.res = "Ok" /\ Payload(buf.bytes) = lastWrite.payload
        ELSE ret.res \in {"Os", "UnexpectedEof"}

C1_Witness ==
    /\ ReadAfterWrite
    /\ ret.res = "Ok"
    /\ \E v \in ByteVals : lastWrite.payload = [i \in 1..PayloadLen |-> v]
    /\ Payload(buf.bytes) = lastWrite.payload

C9_InitMonotonic ==
    [][(buf.id # 0 /\ buf'.id = buf.id) => buf'.init >= buf.init]_vars

\* C10 as stated: every byte below the initialized length has been given a
\* value (by a caller store, a zero-fill or a completed read).
C10_InitPrefixWritten ==
    buf.id # 0 => \A i \in 1..buf.init : buf.written[i]


\* C13 as stated: no read_page or write_page call panics, whatever the
\* capacity and the initialized length of its buffer.
C13_NoPanic == pc # "panicked"

\* C19: when the read of a read_page completes with n bytes, the returned
\* buffer's initialized length is n (clamped to the capacity), whatever it was
\* at submission; when the segment open or the read fails with an OS error,
\* the buffer comes back as it was submitted.
C19_InitIsBytesRead ==
    [][/\ (pc = "reading" /\ pc' = "idle") =>
            IF ret'.n >= 0 THEN buf'.init = Min(ret'.n, buf.cap)
            ELSE ret'.res = "Os" /\ buf' = buf
       /\ (pc = "idle" /\ pc' = "idle" /\ ret'.op = "read") =>
            ret'.res = "Os" /\ buf' = buf]_vars

\* A read_page of nothing (0 bytes) into a buffer that a write_page had
\* stamped, so that its initialized length was PAGE_SIZE or more: it is 0 now.
C19_Witness ==
    /\ ret.op = "read" /\ ret.n = 0 /\ ret.res = "UnexpectedEof"
    /\ buf.init = 0
    /\ buf.cap >= PAGE_SIZE
    /\ \A k \in 1..PAGE_SIZE : buf.written[k]
    /\ Payload(buf.bytes) = [i \in 1..PayloadLen |-> 1]
    /\ Header(buf.bytes) = to_be_bytes(Crc32(Payload(buf.bytes)))

\* C20 as stated: read_page returns its short-read error, and write_page its
\* short-write error, only when the kernel transferred fewer than PAGE_SIZE
\* bytes.
C20_ShortMeansShort ==
    ret.res \in {"UnexpectedEof", "WriteZero"} => ret.n < PAGE_SIZE

\* C21 as stated: a write_page(p, buf), whatever it returns and whatever the
\* capacity and the initialized length of buf, changes at most the PAGE_SIZE
\* on-disk bytes of page p: every other byte of the segment and of every other
\* segment is left as it was.
C21_WriteFrame ==
    [][pc = "writing" =>
          LET loc == get_location(op.page)
          IN  \A f \in Files : \A i \in 1..FileLen :
                  disk'[f][i] # disk[f][i] =>
                      /\ f = loc.path
                      /\ loc.offset < i /\ i <= loc.offset + PAGE_SIZE]_vars

\* --------------------------------------------------- claims on AlignedBuf
\* C11: ensure_init_up_to(n) on a buffer with initialized length i and
\* capacity c gives the initialized length max(i, min(n, c)), sets exactly the
\* bytes in [i, min(n, c)) to zero and leaves every other byte unchanged; a
\* second call with the same or a smaller n changes nothing.
C11_EnsureInitUpTo ==
    buf.id # 0 =>
        \A n \in LenArgs :
            LET b1 == ensure_init_up_to(buf, n)
                i == buf.init
                target == Min(n, buf.cap)
            IN  /\ b1.init = Max(i, target)
                /\ b1.cap = buf.cap
                /\ \A k \in 1..buf.cap :
                      b1.bytes[k] = IF i < k /\ k <= target THEN 0 ELSE buf.bytes[k]
                /\ \A m \in LenArgs : m <= n => ensure_init_up_to(b1, m) = b1

\* ensure_init_up_to(HEADER_LEN) has zero-filled the header of a buffer whose
\* memory was allocated non-zero; the bytes beyond are as allocated.
C11_Witness ==
    /\ buf.id # 0
    /\ buf.init = HEADER_LEN
    /\ \A k \in 1..HEADER_LEN : buf.bytes[k] = 0 /\ buf.written[k]
    /\ \A k \in (HEADER_LEN + 1)..buf.cap : buf.bytes[k] = 255 /\ ~buf.written[k]

\* C16: after any sequence of new, set_init_len, ensure_init_up_to and
\* set_init the initialized length is between 0 and the capacity, and the
\* capacity of a buffer is the one it was constructed with.
C16_InitBounded ==
    [][buf'.id # 0 =>
          /\ 0 <= buf'.init /\ buf'.init <= buf'.cap
          /\ buf'.cap = IF buf.id = buf'.id THEN buf.cap ELSE Len(buf'.bytes)]_vars

\* A buffer larger than a page whose initialized length is its capacity,
\* with none of its bytes ever written: set_init_len or set_init was given
\* a length beyond the capacity.
C16_Witness ==
    /\ buf.id # 0
    /\ buf.cap = MaxCap
    /\ buf.init = buf.cap
    /\ \A k \in 1..buf.cap : ~buf.written[k]

\* ------------------------------------------------ claims on page addressing
SegmentNo(page_id) == page_id.page_no \div PAGES_PER_SEGMENT
SameSpace(p, q) == p.db_id = q.db_id /\ p.space_id = q.space_id

\* C12 as stated: on both backends the page with page_no = k*131072 + r is
\* put at byte offset r*PAGE_SIZE of the segment file numbered k of its space:
\* pages of different segments are in different files, and the same page id
\* gives the same (path, offset) on every call.
C12_PageAddressing ==
    located # NoLocated =>
        LET p == located.page
            r == p.page_no % PAGES_PER_SEGMENT
        IN  /\ located.uring = [path |-> <<p.space_id, SegmentNo(p)>>,
                                offset |-> r * PAGE_SIZE]
            /\ located.core.offset = r * PAGE_SIZE
            /\ prev_located # NoLocated =>
                  LET q == prev_located.page
                  IN  /\ q = p => /\ located.uring = prev_located.uring
                                  /\ located.core = prev_located.core
                      /\ (SameSpace(p, q) /\ SegmentNo(p) # SegmentNo(q)) =>
                            /\ located.uring.path # prev_located.uring.path
                            /\ located.core.path # prev_located.core.path

\* ---------------------------------------- claims on CoreStorage data pages
\* The on-disk image of a page of a CoreStorage data file; shorter than
\* PAGE_SIZE when the file ends inside the page.
CoreDiskPage(page_id) ==
    LET key == FileKey(page_id)
        file == IF key \in DOMAIN cdisk THEN cdisk[key] ELSE << >>
        lo == CoreOffset(page_id)
    IN  SubSeq(file, lo + 1, Min(Len(file), lo + PAGE_SIZE))

\* C2 as stated: a read_page that read a whole page whose stored header
\* differs from the CRC-32 of its payload returns a corruption error, never Ok.
C2_ChecksumDetection ==
    (/\ cret.op = "read"
     /\ cret.n = PAGE_SIZE
     /\ ChecksumMismatch(cret.buf.bytes)) => cret.res = "Corruption"

\* C3 as stated: every page whose most recent write_page returned Ok is on
\* disk in full with header bytes [0,4) equal to the big-endian CRC-32 of its
\* payload bytes.
C3_PageIntegrity ==
    \A p \in cwrOk :
        /\ Len(CoreDiskPage(p)) = PAGE_SIZE
        /\ Header(CoreDiskPage(p)) = to_be_bytes(Crc32(Payload(CoreDiskPage(p))))

\* C8 as stated: a page read or page write that the kernel completes with
\* fewer than PAGE_SIZE bytes returns a short-read / short-write error.
C8_ShortTransferDetected ==
    (cret.n >= 0 /\ cret.n < PAGE_SIZE) => cret.res \in {"ShortRead", "ShortWrite"}

\* C15 as stated: every allocate_extent call returns a start_page_no (or
\* the error of a failed open), and the page ranges returned for one
\* (db_id, space_id) do not overlap.
C15_ExtentsDisjoint ==
    /\ cret.op = "allocate" => cret.res \in {"Ok", "Io"}
    /\ \A e, f \in extents :
          (e # f /\ e.db_id = f.db_id /\ e.space_id = f.space_id) =>
              (e.start + e.n <= f.start \/ f.start + f.n <= e.start)

\* C17 as stated: no call finds the handle cache borrowed by a task that is
\* suspended inside get_data_file, so no call panics on the cache.
C17_NoBorrowConflict ==
    /\ cret.res # "Panic"
    /\ \A t \in Tasks : cpc[t] = "opening" => borrowed = t

\* C18 as stated: a data file is opened only for a key that is not in the
\* cache, so at most once per (db_id, space_id); an entry of the cache is
\* never removed nor replaced; a call whose key is in the cache gets the
\* cached handle from get_data_file, without opening a file.
C18_OpenedOnceAndKept ==
    [][/\ \A k \in DOMAIN data_files :
             k \in DOMAIN data_files' /\ data_files'[k] = data_files[k]
       /\ nopen' = Cardinality(DOMAIN data_files')
       /\ nopen' # nopen =>
             /\ nopen' = nopen + 1
             /\ \E k \in DOMAIN data_files' \ DOMAIN data_files :
                   DOMAIN data_files' = DOMAIN data_files \cup {k}
       /\ \A t \in Tasks :
             /\ (cpc[t] = "idle" /\ cpc'[t] = "opening") =>
                   FileKey(cop'[t].page) \notin DOMAIN data_files
             /\ (cpc[t] = "idle" /\ cpc'[t] = "panicked" /\ cret'.res = "Panic") =>
                   FileKey(cret'.page) \notin DOMAIN data_files]_vars

\* ------------------------------------------------------- claims on the WAL
\* The log of db_id durably holds the payload of append a at [lsn, lsn + len).
Durable(a) ==
    /\ Len(wal_durable[a.db]) >= a.lsn + a.len
    /\ \A i \in 1..a.len : wal_durable[a.db][a.lsn + i] = 1

\* C14 as stated: a flush_wal(db_id) call ends by returning, and when it
\* returns Ok the log of db_id durably holds, at [L, L + len(payload)), the
\* payload of every append_wal(db_id, payload) that returned Lsn L before it.
C14_FlushDurable ==
    wflush # NoFlush =>
        /\ wflush.res \in {"Ok", "Io"}
        /\ wflush.res = "Ok" =>
              \A k \in 1..Len(appends) : appends[k].db = wflush.db => Durable(appends[k])

\* The appends to db_id, in call order.
AppendsTo(d) == SelectSeq(appends, LAMBDA a : a.db = d)

RECURSIVE SumLen(_, _)
SumLen(h, k) == IF k = 0 THEN 0 ELSE SumLen(h, k - 1) + h[k].len

Disjoint(a, b) == a.lsn + a.len <= b.lsn \/ b.lsn + b.len <= a.lsn

\* C4: on a fresh CoreStorage the appends to one db_id with payload lengths
\* l1, l2, l3, ... return the LSNs 0, l1, l1+l2, ..., and their byte ranges
\* [lsn_i, lsn_i + l_i) are pairwise disjoint.
C4_LsnAssignment ==
    \A d \in DbIds :
        LET h == AppendsTo(d)
        IN  /\ \A i \in 1..Len(h) : h[i].lsn = SumLen(h, i - 1)
            /\ \A i, j \in 1..Len(h) : i # j => Disjoint(h[i], h[j])

C4_Witness ==
    \E d \in DbIds :
        LET h == AppendsTo(d)
        IN  /\ Len(h) = 3
            /\ h[1].len = 2 /\ h[2].len = 1 /\ h[3].len = 2
            /\ h[1].lsn = 0 /\ h[2].lsn = 2 /\ h[3].lsn = 3

\* C5 as stated: of two successive append_wal calls on one db_id, whatever
\* their payloads, the later returns a strictly greater LSN.
C5_StrictlyIncreasing ==
    \A d \in DbIds :
        LET h == AppendsTo(d)
        IN  \A i \in 1..Len(h) : i < Len(h) => h[i].lsn < h[i + 1].lsn

\* C5 amended: of two successive append_wal calls on one db_id the later
\* returns an LSN that is not smaller, and strictly greater when the
\* earlier payload is not empty; after an empty payload it is the same LSN.
C5_Increasing ==
    \A d \in DbIds :
        LET h == AppendsTo(d)
        IN  \A i \in 1..Len(h) : i < Len(h) =>
                /\ h[i].lsn <= h[i + 1].lsn
                /\ h[i].len > 0 => h[i].lsn < h[i + 1].lsn
                /\ h[i].len = 0 => h[i].lsn = h[i + 1].lsn

C5_Witness ==
    \E d \in DbIds :
        LET h == AppendsTo(d)
        IN  /\ Len(h) = 3
            /\ h[1].len > 0 /\ h[2].len = 0
            /\ h[1].lsn < h[2].lsn /\ h[2].lsn = h[3].lsn

\* C6: when several tasks of one core append to the same db_id, no two of
\* them are given overlapping ranges, and no advance of the tail is lost:
\* the tail lies at or beyond the end of every range handed out.
C6_AtomicAssignment ==
    \A i, j \in 1..Len(appends) :
        appends[i].db = appends[j].db =>
            /\ appends[i].task # appends[j].task => Disjoint(appends[i], appends[j])
            /\ appends[i].db \in DOMAIN wal_offsets
            /\ appends[i].lsn + appends[i].len <= wal_offsets[appends[i].db]

C6_Witness ==
    \E i, j \in 1..Len(appends) :
        /\ i < j
        /\ appends[i].db = appends[j].db
        /\ appends[i].task # appends[j].task
        /\ appends[i].len > 0 /\ appends[j].len > 0
        /\ appends[j].lsn = appends[i].lsn + appends[i].len
        /\ wal_offsets[appends[j].db] = appends[j].lsn + appends[j].len

\* The recorded tail of db_id d; a db_id never appended to has no entry.
TailOf(offsets, d) == IF d \in DOMAIN offsets THEN offsets[d] ELSE 0

\* The sum of the payload lengths of the appends to d in the history h.
TailSum(h, d) ==
    LET hd == SelectSeq(h, LAMBDA a : a.db = d)
    IN  SumLen(hd, Len(hd))

\* C22: the tail of each db_id is the sum of the lengths of the payloads
\* appended to it (0 when it has no entry); append_wal(d, payload) advances
\* the tail of d by len(payload) and leaves every other tail unchanged, and no
\* other operation changes a tail.
C22_TailAccounting ==
    [][\A d \in DbIds :
          /\ TailOf(wal_offsets', d) = TailSum(appends', d)
          /\ TailOf(wal_offsets', d) =
                IF Len(appends') = Len(appends) + 1 /\ appends'[Len(appends')].db = d
                THEN TailOf(wal_offsets, d) + appends'[Len(appends')].len
                ELSE TailOf(wal_offsets, d)]_vars

\* Appends to two databases interleaved, and a flush_wal call in between or
\* after: each tail is the sum of its own payload lengths.
C22_Witness ==
    /\ Len(appends) = 3
    /\ appends[1].db = 7 /\ appends[2].db = 8 /\ appends[3].db = 7
    /\ appends[1].len = 2 /\ appends[2].len = 2 /\ appends[3].len = 1
    /\ wal_offsets[7] = 3 /\ wal_offsets[8] = 2
    /\ \E t \in Tasks : wpc[t] = "panicked"

====
